---- MODULE Spec2Model ----
(***************************************************************************)
(* A model of app.py, the Streamlit "Smart Calculator": the arithmetic     *)
(* evaluator calculate, the history ledger and the last-calculation slot   *)
(* held in st.session_state, the Groq client helper, and the script runs   *)
(* that the page's buttons trigger.                                        *)
(*                                                                         *)
(* One action is one script run, top to bottom: the sidebar is rendered    *)
(* first, then the tab-1 handler, then tab 2, then tab 3.                  *)
(***************************************************************************)
EXTENDS Integers, Sequences, FiniteSets, TLC

VARIABLES
    history,        \* st.session_state["history"]
    last_calc,      \* st.session_state["last_calc"]
    api_key,        \* os.environ.get("GROQ_API_KEY")
    request,        \* the chat-completion request the latest run sent, or None
    clicked,        \* the button whose click caused the latest run
    nl_question,    \* the text of tab 3's question field, as characters
    sidebar,        \* the entries the sidebar wrote in the latest run
    tab2,           \* what tab 2 rendered in the latest run
    shown,          \* the message the latest run's handler displayed
    call,           \* the latest call of calculate: arguments and outcome
    log,            \* every entry recorded since the last Clear, newest first
    cleared         \* a Clear happened and nothing was recorded since

vars == <<history, last_calc, api_key, request, clicked, nl_question, sidebar,
          tab2, shown, call, log, cleared>>

----------------------------------------------------------------------------
(* Bounds of the model.                                                    *)

\* Spec: entries recorded between two Clears.
MaxLog == 3
\* SpecLedger: entries recorded between two Clears.
MaxLedgerLog == 11
\* SpecCalc: operands are the integer-valued floats -MaxCalcOperand .. MaxCalcOperand.
MaxCalcOperand == 3

----------------------------------------------------------------------------
(* Python values.                                                          *)

\* Python's None, and a str where None may stand instead.
None == [none |-> TRUE]
Str(s) == [str |-> s]
\* bool(x) of a str or None.
Truthy(x) == x # None /\ x.str # ""

Abs(x) == IF x < 0 THEN -x ELSE x

RECURSIVE Gcd(_, _)
Gcd(x, y) == IF y = 0 THEN x ELSE Gcd(y, x % y)

\* A float is modelled by the rational it holds, in lowest terms with a
\* positive denominator; rounding to 53 bits is left out.
Float(n, d) ==
    LET g == Gcd(Abs(n), Abs(d))
        s == IF d < 0 THEN -1 ELSE 1
    IN  [num |-> (s * n) \div g, den |-> (s * d) \div g]

FromInt(k) == [num |-> k, den |-> 1]

FloatAdd(x, y) == Float(x.num * y.den + y.num * x.den, x.den * y.den)
FloatSub(x, y) == Float(x.num * y.den - y.num * x.den, x.den * y.den)
FloatMul(x, y) == Float(x.num * y.num, x.den * y.den)
\* x / y for y # 0.
FloatQuot(x, y) == Float(x.num * y.den, x.den * y.num)

\* x ** k for a natural k, by squaring.
RECURSIVE FloatNatPow(_, _)
FloatNatPow(x, k) ==
    IF k = 0 THEN FromInt(1)
    ELSE IF k % 2 = 0 THEN FloatNatPow(FloatMul(x, x), k \div 2)
    ELSE FloatMul(x, FloatNatPow(x, k - 1))

\* The outcome of evaluating a Python expression: a value or an exception.
Return(v) == [exc |-> "None", msg |-> "", value |-> v]
Raise(e, m) == [exc |-> e, msg |-> m, value |-> None]

\* Python's float / float.
PyTrueDiv(x, y) ==
    IF y.num = 0 THEN Raise("ZeroDivisionError", "float division by zero")
    ELSE Return(FloatQuot(x, y))

\* The binary exponent from which a double overflows: 2.0 ** 1024 is out of
\* range.
DblMaxExp == 1024

\* Python's float ** float, for integer-valued operands with an exponent of
\* at most DblMaxExp.
PyPow(x, y) ==
    IF x.num = 0 /\ y.num < 0
    THEN Raise("ZeroDivisionError", "0.0 cannot be raised to a negative power")
    ELSE IF Abs(x.num) >= 2 /\ y.num >= DblMaxExp
    THEN Raise("OverflowError", "(34, 'Numerical result out of range')")
    ELSE IF y.num >= 0 THEN Return(FloatNatPow(x, y.num))
    ELSE Return(FloatQuot(FromInt(1), FloatNatPow(x, -y.num)))

\* str(float) of an integer-valued float: "12.0", "-3.0".
FloatStr(x) == ToString(x.num) \o ".0"

----------------------------------------------------------------------------
(* calculate: app.py lines 34-43.                                          *)

\* The options of the selectbox. The multiplication and division signs of
\* the labels and of the symbols are written x and / here.
Operations ==
    {"Add (+)", "Subtract (-)", "Multiply (x)", "Divide (/)", "Power (a^b)",
     "Percentage (a% of b)"}

\* calculate without the zero-divisor check of line 39.
calculate_unchecked(a, b, op_label) ==
    IF op_label = "Add (+)" THEN Return([result |-> FloatAdd(a, b), symbol |-> "+"])
    ELSE IF op_label = "Subtract (-)" THEN Return([result |-> FloatSub(a, b), symbol |-> "-"])
    ELSE IF op_label = "Multiply (x)" THEN Return([result |-> FloatMul(a, b), symbol |-> "x"])
    ELSE IF op_label = "Divide (/)" THEN
        LET q == PyTrueDiv(a, b)
        IN  IF q.exc # "None" THEN q ELSE Return([result |-> q.value, symbol |-> "/"])
    ELSE IF op_label = "Power (a^b)" THEN
        LET p == PyPow(a, b)
        IN  IF p.exc # "None" THEN p ELSE Return([result |-> p.value, symbol |-> "^"])
    ELSE IF op_label = "Percentage (a% of b)" THEN
        LET q == PyTrueDiv(a, FromInt(100))
        IN  IF q.exc # "None" THEN q ELSE Return([result |-> FloatMul(q.value, b), symbol |-> "% of"])
    ELSE Raise("ValueError", "Unknown operation selected.")

\* calculate with the operands of the subtraction exchanged.
calculate_swapped(a, b, op_label) ==
    IF op_label = "Add (+)" THEN Return([result |-> FloatAdd(a, b), symbol |-> "+"])
    ELSE IF op_label = "Subtract (-)" THEN Return([result |-> FloatSub(b, a), symbol |-> "-"])
    ELSE IF op_label = "Multiply (x)" THEN Return([result |-> FloatMul(a, b), symbol |-> "x"])
    ELSE IF op_label = "Divide (/)" THEN
        IF b.num = 0 THEN Raise("ZeroDivisionError", "Cannot divide by zero.")
        ELSE LET q == PyTrueDiv(a, b)
             IN  IF q.exc # "None" THEN q ELSE Return([result |-> q.value, symbol |-> "/"])
    ELSE IF op_label = "Power (a^b)" THEN
        LET p == PyPow(a, b)
        IN  IF p.exc # "None" THEN p ELSE Return([result |-> p.value, symbol |-> "^"])
    ELSE IF op_label = "Percentage (a% of b)" THEN
        LET q == PyTrueDiv(a, FromInt(100))
        IN  IF q.exc # "None" THEN q ELSE Return([result |-> FloatMul(q.value, b), symbol |-> "% of"])
    ELSE Raise("ValueError", "Unknown operation selected.")

calculate(a, b, op_label) ==
    IF op_label = "Add (+)" THEN Return([result |-> FloatAdd(a, b), symbol |-> "+"])
    ELSE IF op_label = "Subtract (-)" THEN Return([result |-> FloatSub(a, b), symbol |-> "-"])
    ELSE IF op_label = "Multiply (x)" THEN Return([result |-> FloatMul(a, b), symbol |-> "x"])
    ELSE IF op_label = "Divide (/)" THEN
        IF b.num = 0 THEN Raise("ZeroDivisionError", "Cannot divide by zero.")
        ELSE LET q == PyTrueDiv(a, b)
             IN  IF q.exc # "None" THEN q ELSE Return([result |-> q.value, symbol |-> "/"])
    ELSE IF op_label = "Power (a^b)" THEN
        LET p == PyPow(a, b)
        IN  IF p.exc # "None" THEN p ELSE Return([result |-> p.value, symbol |-> "^"])
    ELSE IF op_label = "Percentage (a% of b)" THEN
        LET q == PyTrueDiv(a, FromInt(100))
        IN  IF q.exc # "None" THEN q ELSE Return([result |-> FloatMul(q.value, b), symbol |-> "% of"])
    ELSE Raise("ValueError", "Unknown operation selected.")

----------------------------------------------------------------------------
(* The session state and the helpers that touch it.                        *)

\* The capacity of the ledger: the slice [:10] of line 47.
HistoryCap == 10

Min(x, y) == IF x < y THEN x ELSE y

\* list[:n]
Take(s, n) == SubSeq(s, 1, Min(Len(s), n))

Entry(expression, result) == [expression |-> expression, result |-> result]

\* add_to_history keeping the last 10 entries of the list, not the first 10.
add_to_history_keep_last(h, expression, result) ==
    LET l == <<Entry(expression, result)>> \o h
    IN  SubSeq(l, Len(l) - Min(Len(l), HistoryCap) + 1, Len(l))

\* add_to_history appending the entry at the end of the list.
add_to_history_append(h, expression, result) ==
    Take(h \o <<Entry(expression, result)>>, HistoryCap)

\* The list that add_to_history leaves in st.session_state["history"].
add_to_history(h, expression, result) ==
    Take(<<Entry(expression, result)>> \o h, HistoryCap)

\* The f-string of line 79.
Expression(num1, symbol, num2) ==
    IF symbol # "% of"
    THEN FloatStr(num1) \o " " \o symbol \o " " \o FloatStr(num2)
    ELSE FloatStr(num1) \o "% of " \o FloatStr(num2)

MissingKeyMsg == "GROQ_API_KEY is missing. Set it in Colab secrets and environment."

\* create_groq_client testing the key against None only.
create_groq_client_is_none(key, ctor) ==
    IF key = None THEN [client |-> None, err |-> Str(MissingKeyMsg)]
    ELSE IF ctor = "ok" THEN [client |-> Str("Groq"), err |-> None]
    ELSE [client |-> None, err |-> Str("Error creating Groq client: " \o ctor)]

\* create_groq_client: the pair (client, err). ctor is what Groq(api_key=...)
\* does: "ok", or the text of the exception it raises.
create_groq_client(key, ctor) ==
    IF ~Truthy(key) THEN [client |-> None, err |-> Str(MissingKeyMsg)]
    ELSE IF ctor = "ok" THEN [client |-> Str("Groq"), err |-> None]
    ELSE [client |-> None, err |-> Str("Error creating Groq client: " \o ctor)]

\* What a run displays besides the sidebar and the tabs' fixed text.
Message(kind, text, value) == [kind |-> kind, text |-> text, value |-> value]
NoMessage == Message("none", "", None)

\* Tab 2 with the button always rendered.
ExplainButtonRendered_always(lc) == TRUE

\* Lines 93-99: the Explain button is rendered, and can report a click, only
\* in the else branch of the test of last_calc.
ExplainButtonRendered(lc) == lc # None

Tab2View(lc) == IF ExplainButtonRendered(lc) THEN "button" ELSE "info"

NoCall == [a |-> None, b |-> None, op |-> "", ret |-> None]

\* The question field's initial value, line 120, shortened.
DefaultQuestion == <<"1", "2", "/", "3", "+", "4">>

\* The state after the first run of the script in a new session.
InitSession ==
    /\ history = <<>>
    /\ last_calc = None
    /\ api_key \in {None, Str(""), Str("gsk_key")}
    /\ request = None
    /\ clicked = "none"
    /\ nl_question = DefaultQuestion
    /\ sidebar = <<>>
    /\ tab2 = Tab2View(None)
    /\ shown = NoMessage
    /\ log = <<>>
    /\ cleared = FALSE

Init == InitSession /\ call = NoCall

----------------------------------------------------------------------------
(* The handler of the Calculate button, lines 76-88, as a function of the  *)
(* session state it reads: what it displays and what it leaves in the      *)
(* session.                                                                *)

Outcome(msg, lc, h) == [shown |-> msg, last_calc |-> lc, history |-> h]

\* Lines 79-82: calculate returned (result, symbol).
OnResult(h, lc, num1, num2, value) ==
    LET expression == Expression(num1, value.symbol, num2)
    IN  Outcome(Message("success", "Result: " \o expression \o " = ", value.result),
                [num1 |-> num1, num2 |-> num2, symbol |-> value.symbol,
                 result |-> value.result, expression |-> expression],
                add_to_history(h, expression, value.result))

\* The warning-sign emoji that opens the message of line 84.
WarningSign == "(!)"

\* Lines 83-85 without the assignment of line 85.
OnZeroDivisionError_keeps(h, lc, zde) ==
    Outcome(Message("error", WarningSign \o " " \o zde.msg, None), lc, h)

\* Lines 83-85 emptying the ledger as well as the slot.
OnZeroDivisionError_resets_all(h, lc, zde) ==
    Outcome(Message("error", WarningSign \o " " \o zde.msg, None), None, <<>>)

\* Lines 83-85: except ZeroDivisionError.
OnZeroDivisionError(h, lc, zde) ==
    Outcome(Message("error", WarningSign \o " " \o zde.msg, None), None, h)

\* Lines 86-88: except Exception.
OnException(h, lc, e) ==
    Outcome(Message("error", "Unexpected error: " \o e.msg, None), None, h)

CalculateHandler(h, lc, num1, num2, operation) ==
    LET r == calculate(num1, num2, operation)
    IN  IF r.exc = "None" THEN OnResult(h, lc, num1, num2, r.value)
        ELSE IF r.exc = "ZeroDivisionError" THEN OnZeroDivisionError(h, lc, r)
        ELSE OnException(h, lc, r)

----------------------------------------------------------------------------
(* The script runs.                                                        *)

\* A run with no button pressed: the user edited a widget.
Rerun ==
    /\ sidebar' = history
    /\ tab2' = Tab2View(last_calc)
    /\ shown' = NoMessage
    /\ request' = None
    /\ clicked' = "none"
    /\ UNCHANGED <<history, last_calc, api_key, nl_question, call, log, cleared>>

\* The Clear button also emptying the last-calculation slot.
ClearHistory_resets_slot ==
    /\ history' = <<>>
    /\ last_calc' = None
    /\ sidebar' = <<>>
    /\ tab2' = Tab2View(None)
    /\ shown' = NoMessage
    /\ log' = <<>>
    /\ cleared' = TRUE
    /\ request' = None
    /\ clicked' = "clear"
    /\ UNCHANGED <<api_key, nl_question, call>>

\* Lines 57-59: the Clear button empties the ledger and reruns the script,
\* and the second run renders the empty ledger.
ClearHistory ==
    /\ history' = <<>>
    /\ sidebar' = <<>>
    /\ tab2' = Tab2View(last_calc)
    /\ shown' = NoMessage
    /\ log' = <<>>
    /\ cleared' = TRUE
    /\ request' = None
    /\ clicked' = "clear"
    /\ UNCHANGED <<last_calc, api_key, nl_question, call>>

\* Lines 50-56 and 76-88: the run of a click on Calculate. The sidebar is
\* rendered from the ledger before the handler runs.
Calculate(num1, num2, operation) ==
    LET o == CalculateHandler(history, last_calc, num1, num2, operation)
        r == calculate(num1, num2, operation)
    IN  /\ sidebar' = history
        /\ history' = o.history
        /\ last_calc' = o.last_calc
        /\ shown' = o.shown
        /\ tab2' = Tab2View(o.last_calc)
        /\ call' = [a |-> num1, b |-> num2, op |-> operation, ret |-> r]
        /\ log' = IF r.exc = "None"
                  THEN <<Entry(Expression(num1, r.value.symbol, num2), r.value.result)>> \o log
                  ELSE log
        /\ cleared' = IF r.exc = "None" THEN FALSE ELSE cleared
        /\ request' = None
        /\ clicked' = "calculate"
        /\ UNCHANGED <<api_key, nl_question>>

\* str.strip() of a string given as its sequence of characters.
IsSpace(c) == c \in {" ", "\t", "\n"}

RECURSIVE LStrip(_)
LStrip(s) == IF s # <<>> /\ IsSpace(Head(s)) THEN LStrip(Tail(s)) ELSE s

RECURSIVE RStrip(_)
RStrip(s) ==
    IF s # <<>> /\ IsSpace(s[Len(s)]) THEN RStrip(SubSeq(s, 1, Len(s) - 1)) ELSE s

Strip(s) == RStrip(LStrip(s))

\* What Groq(api_key=...) does: "ok", or the text of its exception.
CtorOutcomes == {"ok", "invalid client options"}

\* What client.chat.completions.create(...).choices[0].message.content
\* evaluates to: the text, or an exception of the transport, the service or
\* the indexing of a malformed response.
CompletionOutcomes ==
    {Return(Str("Step 1 ...")), Raise("APIConnectionError", "Connection error.")}

\* The cross-mark emoji that opens the messages of lines 102 and 127.
CrossMark == "[x]"

\* The request of lines 106-109 and 136-139: one user message and the fixed
\* model. The prompt is named by the button that built it.
Request(prompt) ==
    [messages |-> <<[role |-> "user", content |-> prompt]>>,
     model |-> "llama-3.3-70b-versatile"]

\* Lines 104-114 and 129-144: the one blocking call and what is displayed.
Completion(heading, reply) ==
    IF reply.exc = "None" THEN Message("write", heading, reply.value)
    ELSE Message("error", "Error while contacting Groq: " \o reply.msg, None)

\* Lines 91-114: the run of a click on Explain with AI.
ExplainWithAI(ctor, reply) ==
    /\ ExplainButtonRendered(last_calc)
    /\ LET c == create_groq_client(api_key, ctor)
       IN  IF Truthy(c.err)
           THEN /\ shown' = Message("error", CrossMark \o " " \o c.err.str, None)
                /\ request' = None
           ELSE /\ request' = Request("explain")
                /\ shown' = Completion("AI Explanation", reply)
    /\ clicked' = "explain"
    /\ sidebar' = history
    /\ tab2' = Tab2View(last_calc)
    /\ UNCHANGED <<history, last_calc, api_key, nl_question, call, log, cleared>>

\* The questions typed in tab 3.
Questions == {<<" ", " ">>, DefaultQuestion}

\* Lines 117-144: the run of a click on Ask AI to Calculate, the question
\* field holding question.
AskAI(question, ctor, reply) ==
    /\ nl_question' = question
    /\ IF Strip(question) = <<>>
       THEN /\ shown' = Message("warning", "Please enter a question first.", None)
            /\ request' = None
       ELSE LET c == create_groq_client(api_key, ctor)
            IN  IF Truthy(c.err)
                THEN /\ shown' = Message("error", CrossMark \o " " \o c.err.str, None)
                     /\ request' = None
                ELSE /\ request' = Request("ask")
                     /\ shown' = Completion("AI Answer", reply)
    /\ clicked' = "ask"
    /\ sidebar' = history
    /\ tab2' = Tab2View(last_calc)
    /\ UNCHANGED <<history, last_calc, api_key, call, log, cleared>>

----------------------------------------------------------------------------
(* Spec: a session whose calculations come from a small set that reaches   *)
(* every operation and every branch of the handler: six succeed, two raise *)
(* ZeroDivisionError (line 39, and 0.0 ** -1.0) and one OverflowError.     *)

SessionInputs ==
    {<<12, 3, "Divide (/)">>,
     <<50, 20, "Percentage (a% of b)">>,
     <<0, 0, "Add (+)">>,
     <<-1, 0, "Subtract (-)">>,
     <<-1, DblMaxExp, "Multiply (x)">>,
     <<2, -1, "Power (a^b)">>,
     <<-1, 0, "Divide (/)">>,
     <<0, -1, "Power (a^b)">>,
     <<2, DblMaxExp, "Power (a^b)">>}

CalculateClick ==
    /\ Len(log) < MaxLog
    /\ \E in \in SessionInputs : Calculate(FromInt(in[1]), FromInt(in[2]), in[3])

ExplainClick ==
    \E ctor \in CtorOutcomes, reply \in CompletionOutcomes : ExplainWithAI(ctor, reply)

AskClick ==
    \E q \in Questions, ctor \in CtorOutcomes, reply \in CompletionOutcomes :
        AskAI(q, ctor, reply)

Next == CalculateClick \/ ClearHistory \/ Rerun \/ ExplainClick \/ AskClick

Spec == Init /\ [][Next]_vars

----------------------------------------------------------------------------
(* SpecLedger: a session that fills the ledger beyond its capacity. The    *)
(* first operand of each calculation is the number of entries recorded     *)
(* since the last Clear, so the recorded expressions are distinct.         *)

LedgerInputs ==
    {[b |-> FromInt(0), op |-> "Divide (/)"],
     [b |-> FromInt(2), op |-> "Percentage (a% of b)"]}

LedgerCalculateClick ==
    /\ Len(log) < MaxLedgerLog
    /\ \E in \in LedgerInputs : Calculate(FromInt(Len(log)), in.b, in.op)

NextLedger ==
    LedgerCalculateClick \/ ClearHistory \/ Rerun \/ ExplainClick \/ AskClick

SpecLedger == Init /\ [][NextLedger]_vars

----------------------------------------------------------------------------
(* SpecCalc: calculate alone, called once on operands and a selector drawn *)
(* from bounded sets; the selector may be outside the six of the page.     *)

CalcOperands == {FromInt(k) : k \in (-MaxCalcOperand) .. MaxCalcOperand}

\* The second operand may also be large enough for a ** b to overflow.
CalcSecondOperands == CalcOperands \cup {FromInt(DblMaxExp)}

CalcOperations == Operations \cup {"Modulo (%)"}

InitCalc ==
    /\ InitSession
    /\ call \in [a : CalcOperands, b : CalcSecondOperands, op : CalcOperations, ret : {None}]

\* The call returns or raises.
CalculateCall ==
    /\ call.ret = None
    /\ call' = [call EXCEPT !.ret = calculate(call.a, call.b, call.op)]
    /\ UNCHANGED <<history, last_calc, api_key, request, clicked, nl_question,
                   sidebar, tab2, shown, log, cleared>>

NextCalc == CalculateCall

SpecCalc == InitCalc /\ [][NextCalc]_vars

----------------------------------------------------------------------------
(* Properties.                                                             *)

\* C1: the ledger holds at most 10 entries, and they are the 10 (or fewer)
\* most recent entries recorded since the last Clear, newest first.
C1_LedgerHoldsNewestTen ==
    /\ Len(history) <= HistoryCap
    /\ Len(history) = Min(Len(log), HistoryCap)
    /\ \A i \in 1 .. Len(history) : history[i] = log[i]

\* Eleven entries with distinct expressions were recorded: the ledger holds
\* ten and the oldest is gone.
C1_EleventhRecordDropsOldest ==
    /\ Len(log) = HistoryCap + 1
    /\ \A i, j \in 1 .. Len(log) : i # j => log[i].expression # log[j].expression
    /\ Len(history) = HistoryCap
    /\ \A i \in 1 .. Len(history) : history[i] # log[Len(log)]
    /\ history[1] = log[1]

\* C2: calculate(a, 0, "Divide (/)") raises the ZeroDivisionError of line 39,
\* whatever a is, and returns neither a result nor a symbol.
C2_DivideByZeroRaises ==
    (call.ret # None /\ call.op = "Divide (/)" /\ call.b.num = 0)
        => call.ret = Raise("ZeroDivisionError", "Cannot divide by zero.")

C2_DividedByZero ==
    /\ call.ret # None
    /\ call.op = "Divide (/)"
    /\ call.b.num = 0
    /\ call.a.num = MaxCalcOperand
    /\ call.ret.exc = "ZeroDivisionError"
    /\ call.ret.value = None

\* The data line 81 stores for the latest call of calculate.
SlotOf(c) ==
    [num1 |-> c.a, num2 |-> c.b, symbol |-> c.ret.value.symbol,
     result |-> c.ret.value.result,
     expression |-> Expression(c.a, c.ret.value.symbol, c.b)]

\* C3: the slot is empty or holds the data of the most recent Calculate, and
\* it is empty whenever the most recent Calculate failed.
C3_SlotIsLatestSuccess ==
    /\ last_calc # None =>
          /\ call # NoCall
          /\ call.ret.exc = "None"
          /\ last_calc = SlotOf(call)
    /\ (call # NoCall /\ call.ret.exc # "None") => last_calc = None

\* An evaluation error other than a division by zero emptied a slot that an
\* earlier calculation had filled.
C3_FailureEmptiedSlot ==
    /\ clicked = "calculate"
    /\ call.ret.exc = "OverflowError"
    /\ history # <<>>
    /\ ~cleared
    /\ last_calc = None

\* A step that is the run of a Calculate click whose evaluation raised
\* ZeroDivisionError.
ZeroDivisionStep == clicked' = "calculate" /\ call'.ret.exc = "ZeroDivisionError"

\* C4 as claimed: a Calculate that fails with a division by zero leaves both
\* the slot and the ledger as they were.
C4_FailureChangesNothing ==
    [][ZeroDivisionStep => (last_calc' = last_calc /\ history' = history)]_vars

\* C4, amended: a Calculate that fails with a division by zero leaves the
\* ledger as it was and empties the slot.
C4_FailureKeepsLedgerEmptiesSlot ==
    [][ZeroDivisionStep => (history' = history /\ last_calc' = None)]_vars

C4_DivisionFailedAfterSuccess ==
    /\ clicked = "calculate"
    /\ call.op = "Divide (/)"
    /\ call.ret.exc = "ZeroDivisionError"
    /\ Len(history) >= 2
    /\ last_calc = None

MissingCredential == Message("error", CrossMark \o " " \o MissingKeyMsg, None)

\* C5 as claimed: without the credential, the Explain and the Ask runs both
\* end with the missing-credential error and send no request.
C5_NoKeyMeansMissingCredential ==
    (~Truthy(api_key) /\ clicked \in {"explain", "ask"})
        => (shown = MissingCredential /\ request = None)

\* C5, amended: without the credential no run sends a request; the Explain
\* run, and the Ask run on a question that is not blank, end with the
\* missing-credential error, and the Ask run on a blank question ends with
\* the warning of line 123.
C5_NoKeyMeansNoRequest ==
    (~Truthy(api_key) /\ clicked \in {"explain", "ask"}) =>
        /\ request = None
        /\ shown = IF clicked = "ask" /\ Strip(nl_question) = <<>>
                   THEN Message("warning", "Please enter a question first.", None)
                   ELSE MissingCredential

C5_EmptyKeyExplainRefused ==
    /\ api_key = Str("")
    /\ clicked = "explain"
    /\ shown = MissingCredential
    /\ request = None

\* a ** k for integers a and k >= 0: the powers of 0, 1 and -1 in closed
\* form, the others by repeated multiplication.
RECURSIVE IntPow(_, _)
IntPow(a, k) ==
    IF k = 0 THEN 1
    ELSE IF a \in {0, 1} THEN a
    ELSE IF a = -1 THEN (IF k % 2 = 0 THEN 1 ELSE -1)
    ELSE a * IntPow(a, k - 1)

SymbolOf(op) ==
    CASE op = "Add (+)" -> "+"
      [] op = "Subtract (-)" -> "-"
      [] op = "Multiply (x)" -> "x"
      [] op = "Divide (/)" -> "/"
      [] op = "Power (a^b)" -> "^"
      [] op = "Percentage (a% of b)" -> "% of"

\* The fraction r is the closed form of op on the integers a and b.
IsClosedForm(r, a, op, b) ==
    /\ r.den > 0
    /\ CASE op = "Add (+)" -> r.num = (a + b) * r.den
         [] op = "Subtract (-)" -> r.num = (a - b) * r.den
         [] op = "Multiply (x)" -> r.num = (a * b) * r.den
         [] op = "Divide (/)" -> r.num * b = a * r.den
         [] op = "Power (a^b)" ->
                IF b >= 0 THEN r.num = IntPow(a, b) * r.den
                ELSE r.num * IntPow(a, -b) = r.den
         [] op = "Percentage (a% of b)" -> r.num * 100 = a * b * r.den

\* The call returned, and its selector is one of the six of the page.
Returned == call.ret # None /\ call.op \in Operations

ReturnsClosedForm ==
    /\ call.ret.exc = "None"
    /\ call.ret.value.symbol = SymbolOf(call.op)
    /\ IsClosedForm(call.ret.value.result, call.a.num, call.op, call.b.num)

\* C6 as claimed: calculate fails only on a division by zero, and otherwise
\* returns the closed form of the operation and its symbol.
C6_FailsOnlyOnDivideByZero ==
    Returned =>
        IF call.op = "Divide (/)" /\ call.b.num = 0
        THEN call.ret.exc = "ZeroDivisionError"
        ELSE ReturnsClosedForm

\* C6, amended: calculate raises ZeroDivisionError on a division by zero and
\* on a zero base raised to a negative power, raises OverflowError when the
\* power is out of the double range, and otherwise returns the closed form
\* of the operation and its symbol.
C6_FailsOnZeroDivisionAndOverflow ==
    Returned =>
        IF call.op = "Divide (/)" /\ call.b.num = 0
        THEN call.ret.exc = "ZeroDivisionError"
        ELSE IF call.op = "Power (a^b)" /\ call.a.num = 0 /\ call.b.num < 0
        THEN call.ret.exc = "ZeroDivisionError" /\ call.ret.value = None
        ELSE IF call.op = "Power (a^b)" /\ Abs(call.a.num) >= 2 /\ call.b.num >= DblMaxExp
        THEN call.ret.exc = "OverflowError" /\ call.ret.value = None
        ELSE ReturnsClosedForm

\* A power with a zero base and a negative exponent was evaluated.
C6_ZeroToNegativePower ==
    /\ Returned
    /\ call.op = "Power (a^b)"
    /\ call.a.num = 0
    /\ call.b.num = -1
    /\ call.ret.exc = "ZeroDivisionError"

\* C7: the Explain button is rendered exactly when the slot is filled; a run
\* that an Explain click caused, or that sent the explain request, ends with
\* the slot filled; and while no Calculate has succeeded, or the most recent
\* one failed, the button is not rendered and no explain request is sent.
C7_ExplainNeedsSlot ==
    /\ (tab2 = "button") <=> (last_calc # None)
    /\ clicked = "explain" => last_calc # None
    /\ request = Request("explain") => last_calc # None
    /\ (call = NoCall \/ call.ret.exc # "None") =>
          /\ tab2 = "info"
          /\ clicked # "explain"
          /\ request # Request("explain")

C7_ExplainRequestSent ==
    /\ request = Request("explain")
    /\ clicked = "explain"
    /\ last_calc # None
    /\ tab2 = "button"

\* C8: the Explain and Ask runs change neither the ledger nor the slot, and
\* the Clear run does not change the slot.
C8_FrameOfExplainAskClear ==
    [][/\ clicked' \in {"explain", "ask"} =>
            (history' = history /\ last_calc' = last_calc)
       /\ clicked' = "clear" => last_calc' = last_calc]_vars

C8_ClearedWithSlotFilled ==
    /\ clicked = "clear"
    /\ history = <<>>
    /\ last_calc # None

\* C9: at the end of every run the sidebar shows the ledger as it then is.
C9_SidebarShowsLedger == sidebar = history

\* C10: a filled slot agrees with the newest entry of a ledger that is not
\* empty, and the slot is filled while the ledger is empty only after a
\* Clear.
C10_SlotMatchesNewestEntry ==
    /\ (last_calc # None /\ history # <<>>) =>
          /\ history[1].expression = last_calc.expression
          /\ history[1].result = last_calc.result
    /\ (last_calc # None /\ history = <<>>) => cleared

C10_SlotOverTwoEntries ==
    /\ last_calc # None
    /\ Len(history) >= 2
    /\ history[1].expression = last_calc.expression
    /\ history[2].expression # last_calc.expression

====
